---------------------------- MODULE Spec2Model ----------------------------
(***************************************************************************)
(* Model of generate-rss.py: a one-shot script that scans                  *)
(* downloads/<playlist>/ for *.info.json sidecars, pairs each with an mp3, *)
(* and writes one feed-<slug>.xml per playlist directory.                  *)
(*                                                                         *)
(* Text is modelled as a sequence of one-character strings, so that        *)
(* slicing, escaping, quoting and sorting are computed character by        *)
(* character as the script computes them.                                  *)
(***************************************************************************)
EXTENDS Integers, Sequences, FiniteSets, TLC

VARIABLES
    downloads,    \* the downloads directory: NoDir, or [entry name -> "dir" | "file"]
    pc,           \* position of the script: "start", "playlists", "items", "done", "aborted"
    entries,      \* sorted(os.listdir(downloads_dir)), the outer loop's iterable
    pl_i,         \* index in entries of the outer loop
    playlist_dir, \* outer loop variable
    files,        \* names found in ppath when it was globbed
    info_files,   \* sorted(glob(ppath/*.info.json)), the inner loop's iterable
    info_i,       \* index in info_files of the inner loop
    info,         \* inner loop variable (file name of the sidecar inside ppath)
    j,            \* json.load of the sidecar
    mtime,        \* os.path.getmtime(info), <<seconds>> once it was read
    title,        \* html.escape(j.get("title", "Untitled"))
    desc,         \* html.escape(j.get("description", ""))
    pubdate_rfc,  \* format_datetime(pubdate) or ""
    mp3_path,     \* info[:-9] + ".mp3" (file name inside ppath)
    items_xml,    \* the item blocks collected for the current playlist
    cwd,          \* feed files written in the working directory: [outname -> document]
    stdout,       \* the lines printed so far
    slug_in,      \* argument of a slugify call
    slug_out,     \* its result
    dur_in,       \* argument of a sec_to_itunes call
    dur_out       \* its result

runvars == <<downloads, pc, entries, pl_i, playlist_dir, files, info_files, info_i,
             info, j, mtime, title, desc, pubdate_rfc, mp3_path, items_xml, cwd, stdout>>
funvars == <<slug_in, slug_out, dur_in, dur_out>>
vars == <<runvars, funvars>>

\* Python's None where a text is expected, and the value of a text variable
\* not assigned yet: one-element sequences that are no text (a text's
\* elements are single characters).
None == <<"None">>
Unset == <<"Unset">>

---------------------------------------------------------------------------
(* Characters *)

\* The printable ASCII characters in code point order, from 32 (space) to 126
\* (the backslash and the backtick are written by name).
Ascii ==
    << " ", "!", "\"", "#", "$", "%", "&", "'", "(", ")", "*", "+", ",", "-", ".", "/",
       "0", "1", "2", "3", "4", "5", "6", "7", "8", "9", ":", ";", "<", "=", ">", "?",
       "@", "A", "B", "C", "D", "E", "F", "G", "H", "I", "J", "K", "L", "M", "N", "O",
       "P", "Q", "R", "S", "T", "U", "V", "W", "X", "Y", "Z", "[", "bslash", "]", "^", "_",
       "btick", "a", "b", "c", "d", "e", "f", "g", "h", "i", "j", "k", "l", "m", "n", "o",
       "p", "q", "r", "s", "t", "u", "v", "w", "x", "y", "z", "{", "|", "}", "~" >>

\* One non-ASCII letter, U+00E9 (str.isalnum() is true of it).
EAcute == "e'"

Chars == {Ascii[i] : i \in 1..Len(Ascii)} \cup {EAcute}

\* the code point of each character
CodePoint ==
    [c \in Chars |->
        IF c = EAcute THEN 233 ELSE 31 + CHOOSE i \in 1..Len(Ascii) : Ascii[i] = c]

\* ord(c)
Ord(c) == CodePoint[c]

Digits == {"0", "1", "2", "3", "4", "5", "6", "7", "8", "9"}
IsUpper(c) == c # EAcute /\ Ord(c) \in 65..90
IsLower(c) == c = EAcute \/ Ord(c) \in 97..122

\* c.lower() for one character
Lower(c) == IF IsUpper(c) THEN Ascii[Ord(c) + 32 - 31] ELSE c

\* c.isalnum()
IsAlnum(c) == c \in Digits \/ IsUpper(c) \/ IsLower(c)

\* The concatenation of a sequence of texts.
RECURSIVE Concat(_)
Concat(ss) == IF ss = <<>> THEN <<>> ELSE Head(ss) \o Concat(Tail(ss))

\* [f(s[1]), ..., f(s[n])] joined, f giving a text for each character.
MapCat(f(_), s) == Concat([i \in 1..Len(s) |-> f(s[i])])

\* str(n) in decimal
RECURSIVE Str(_)
Str(n) ==
    IF n < 0 THEN <<"-">> \o Str(-n)
    ELSE IF n < 10 THEN <<Ascii[n + 17]>>
    ELSE Str(n \div 10) \o <<Ascii[(n % 10) + 17]>>

\* f"{n:02d}"
Pad2(n) == IF n >= 0 /\ n < 10 THEN <<"0">> \o Str(n) ELSE Str(n)

---------------------------------------------------------------------------
(* sec_to_itunes.  A duration is <<t>>, t tenths of a second (d = t / 10), *)
(* or NoDuration for None.                                                 *)

NoDuration == <<>>

\* round(t / 10): Python 3 rounds a float to the nearest integer, a tie
\* (x.5, exactly representable) to the even neighbour.
RoundTenths(t) ==
    LET q == t \div 10
        r == t % 10
    IN  IF r < 5 THEN q
        ELSE IF r > 5 THEN q + 1
        ELSE IF q % 2 = 0 THEN q ELSE q + 1

\* int(t / 10): truncation toward zero
TruncTenths(t) == IF t >= 0 THEN t \div 10 ELSE -((-t) \div 10)

sec_to_itunes_trunc(dur) ==
    IF dur = NoDuration THEN <<>>
    ELSE LET d == TruncTenths(dur[1])
             h == d \div 3600
             m == (d % 3600) \div 60
             s == d % 60
         IN  IF h # 0 THEN Str(h) \o <<":">> \o Pad2(m) \o <<":">> \o Pad2(s)
             ELSE Str(m) \o <<":">> \o Pad2(s)

sec_to_itunes(dur) ==
    IF dur = NoDuration THEN <<>>
    ELSE LET d == RoundTenths(dur[1])
             h == d \div 3600
             m == (d % 3600) \div 60
             s == d % 60
         IN  IF h # 0 THEN Str(h) \o <<":">> \o Pad2(m) \o <<":">> \o Pad2(s)
             ELSE Str(m) \o <<":">> \o Pad2(s)

---------------------------------------------------------------------------
(* slugify *)

\* s[:50]
SlugMaxLen == 50

\* s.split(sep): the pieces between the separators, empty pieces included.
RECURSIVE Split(_, _)
Split(s, sep) ==
    IF \A i \in 1..Len(s) : s[i] # sep THEN <<s>>
    ELSE LET k == CHOOSE i \in 1..Len(s) :
                      s[i] = sep /\ \A i2 \in 1..(i - 1) : s[i2] # sep
         IN  <<SubSeq(s, 1, k - 1)>> \o Split(SubSeq(s, k + 1, Len(s)), sep)

\* sep.join(parts)
RECURSIVE Join(_, _)
Join(parts, sep) ==
    IF parts = <<>> THEN <<>>
    ELSE IF Len(parts) = 1 THEN parts[1]
    ELSE parts[1] \o <<sep>> \o Join(Tail(parts), sep)

NonEmpty(p) == p # <<>>

\* s[:n]
Prefix(s, n) == SubSeq(s, 1, IF Len(s) < n THEN Len(s) ELSE n)

slugify(text) ==
    LET s1 == [i \in 1..Len(text) |-> Lower(text[i])]
        s2 == [i \in 1..Len(s1) |-> IF IsAlnum(s1[i]) THEN s1[i] ELSE "-"]
        s3 == Join(SelectSeq(Split(s2, "-"), NonEmpty), "-")
    IN  Prefix(s3, SlugMaxLen)

---------------------------------------------------------------------------
(* Ordering and file names *)

\* a < b for Python strings: by code point at the first difference, a proper
\* prefix before the longer text.
LexLess(a, b) ==
    \/ /\ Len(a) < Len(b)
       /\ \A i \in 1..Len(a) : a[i] = b[i]
    \/ \E k \in 1..Len(a) :
          /\ k <= Len(b)
          /\ \A i \in 1..(k - 1) : a[i] = b[i]
          /\ a[k] # b[k]
          /\ Ord(a[k]) < Ord(b[k])

\* the same texts in descending order
RECURSIVE SortedDescending(_)
SortedDescending(S) ==
    IF S = {} THEN <<>>
    ELSE LET m == CHOOSE x \in S : \A y \in S \ {x} : LexLess(y, x)
         IN  <<m>> \o SortedDescending(S \ {m})

\* sorted(S) for a set of distinct texts
RECURSIVE Sorted(_)
Sorted(S) ==
    IF S = {} THEN <<>>
    ELSE LET m == CHOOSE x \in S : \A y \in S \ {x} : LexLess(x, y)
         IN  <<m>> \o Sorted(S \ {m})

SidecarSuffix == <<".", "i", "n", "f", "o", ".", "j", "s", "o", "n">>
MediaSuffix == <<".", "m", "p", "3">>

EndsWith(s, suf) ==
    /\ Len(s) >= Len(suf)
    /\ SubSeq(s, Len(s) - Len(suf) + 1, Len(s)) = suf

\* glob.glob(ppath/*.info.json) over the names found in ppath: the names
\* ending in the suffix; a leading * does not match a hidden (dot) file.
GlobInfo(names) == {f \in names : EndsWith(f, SidecarSuffix) /\ f[1] # "."}

\* info[:-9] + ".mp3"
Mp3Path(inf) == SubSeq(inf, 1, Len(inf) - 9) \o MediaSuffix

---------------------------------------------------------------------------
(* html.escape and urllib.parse.quote *)

\* s.replace(c, ent) for a single character c
Replace(s, c, ent) == MapCat(LAMBDA x : IF x = c THEN ent ELSE <<x>>, s)

Amp == <<"&", "a", "m", "p", ";">>
Lt == <<"&", "l", "t", ";">>
Gt == <<"&", "g", "t", ";">>
Quot == <<"&", "q", "u", "o", "t", ";">>
Apos == <<"&", "#", "x", "2", "7", ";">>

\* the replacements with "&" done last, which escapes the entities again
html_escape_amp_last(s) ==
    Replace(Replace(Replace(Replace(Replace(s, "<", Lt), ">", Gt), "\"", Quot),
                    "'", Apos), "&", Amp)

\* html.escape(s), quote=True: "&" first, then "<", ">", '"', "'"
html_escape(s) ==
    Replace(Replace(Replace(Replace(Replace(s, "&", Amp), "<", Lt), ">", Gt),
                    "\"", Quot), "'", Apos)

HexDigits == <<"0", "1", "2", "3", "4", "5", "6", "7", "8", "9",
               "A", "B", "C", "D", "E", "F">>

\* "%XX" for one byte
PercentByte(b) == <<"%", HexDigits[(b \div 16) + 1], HexDigits[(b % 16) + 1]>>

\* the UTF-8 bytes of a character, percent-encoded (code points below U+0800)
PercentChar(c) ==
    LET cp == Ord(c)
    IN  IF cp < 128 THEN PercentByte(cp)
        ELSE PercentByte(192 + (cp \div 64)) \o PercentByte(128 + (cp % 64))

\* characters quote() never encodes, with its default safe="/"
QuoteSafe(c) ==
    \/ c \in {"_", ".", "-", "~", "/"}
    \/ c # EAcute /\ IsAlnum(c)

\* urllib.parse.quote(s)
quote(s) == MapCat(LAMBDA x : IF QuoteSafe(x) THEN <<x>> ELSE PercentChar(x), s)

---------------------------------------------------------------------------
(* Dates: datetime.strptime, datetime.utcfromtimestamp, format_datetime.   *)
(* A datetime is <<year, month, day, hour, minute, second>>; NoDate is the *)
(* None of a date that could not be parsed.                                *)

NoDate == <<>>

IsLeap(y) == y % 4 = 0 /\ (y % 100 # 0 \/ y % 400 = 0)

DaysInMonthTable == <<31, 28, 31, 30, 31, 30, 31, 31, 30, 31, 30, 31>>
DaysBeforeMonthTable == <<0, 31, 59, 90, 120, 151, 181, 212, 243, 273, 304, 334>>

DaysInMonth(y, m) == IF m = 2 /\ IsLeap(y) THEN 29 ELSE DaysInMonthTable[m]

\* days before January 1st of year y
DaysBeforeYear(y) ==
    LET y1 == y - 1
    IN  y1 * 365 + (y1 \div 4) - (y1 \div 100) + (y1 \div 400)

\* days of year y before the first day of month m
DaysBeforeMonth(y, m) ==
    DaysBeforeMonthTable[m] + (IF m > 2 /\ IsLeap(y) THEN 1 ELSE 0)

\* date.toordinal(): January 1st of year 1 is day 1
Ordinal(y, m, d) == DaysBeforeYear(y) + DaysBeforeMonth(y, m) + d

\* date.weekday(): Monday is 0
Weekday(y, m, d) == (Ordinal(y, m, d) + 6) % 7

\* the date of an ordinal (datetime's _ord2ymd)
Ord2Ymd(ordinal) ==
    LET n0 == ordinal - 1
        n400 == n0 \div 146097
        r400 == n0 % 146097
        n100 == r400 \div 36524
        r100 == r400 % 36524
        n4 == r100 \div 1461
        r4 == r100 % 1461
        n1 == r4 \div 365
        n == r4 % 365
        year == n400 * 400 + 1 + n100 * 100 + n4 * 4 + n1
        leapyear == n1 = 3 /\ (n4 # 24 \/ n100 = 3)
        leap(mo) == IF mo > 2 /\ leapyear THEN 1 ELSE 0
        month0 == (n + 50) \div 32
        pre0 == DaysBeforeMonthTable[month0] + leap(month0)
        month == IF pre0 > n THEN month0 - 1 ELSE month0
        pre == DaysBeforeMonthTable[month] + leap(month)
    IN  IF n1 = 4 \/ n100 = 4 THEN <<year - 1, 12, 31>>
        ELSE <<year, month, n - pre + 1>>

\* ordinal of 1970-01-01
EpochOrdinal == 719163

\* datetime.utcfromtimestamp(t) for whole seconds t
utcfromtimestamp(t) ==
    LET ymd == Ord2Ymd(EpochOrdinal + (t \div 86400))
        sod == t % 86400
    IN  ymd \o <<sod \div 3600, (sod % 3600) \div 60, sod % 60>>

Digits19 == Digits \ {"0"}

\* int(s) for a text of digits (a leading space is skipped, as int() does)
RECURSIVE Num(_)
Num(s) ==
    IF s = <<>> THEN 0
    ELSE IF s[Len(s)] = " " THEN Num(SubSeq(s, 1, Len(s) - 1))
    ELSE Num(SubSeq(s, 1, Len(s) - 1)) * 10 + (Ord(s[Len(s)]) - 48)

\* %m is 1[0-2]|0[1-9]|[1-9]: the lengths that match at position p, in the
\* order the regular expression tries them
MonthLens(s, p) ==
    (IF /\ Len(s) >= p + 1
        /\ \/ s[p] = "1" /\ s[p + 1] \in {"0", "1", "2"}
           \/ s[p] = "0" /\ s[p + 1] \in Digits19
     THEN <<2>> ELSE <<>>)
    \o (IF Len(s) >= p /\ s[p] \in Digits19 THEN <<1>> ELSE <<>>)

\* %d is 3[0-1]|[1-2]\d|0[1-9]|[1-9]| [1-9]: the length of the first
\* alternative that matches at position p, 0 when none does
DayLen(s, p) ==
    IF /\ Len(s) >= p + 1
       /\ \/ s[p] = "3" /\ s[p + 1] \in {"0", "1"}
          \/ s[p] \in {"1", "2"} /\ s[p + 1] \in Digits
          \/ s[p] = "0" /\ s[p + 1] \in Digits19
    THEN 2
    ELSE IF Len(s) >= p /\ s[p] \in Digits19 THEN 1
    ELSE IF Len(s) >= p + 1 /\ s[p] = " " /\ s[p + 1] \in Digits19 THEN 2
    ELSE 0

\* datetime.strptime(s, "%Y%m%d"): the datetime, or NoDate where it raises
\* ValueError (no match, unconverted data remains, or no such calendar day)
strptime_Ymd(s) ==
    IF Len(s) < 4 \/ \E i \in 1..4 : s[i] \notin Digits THEN NoDate
    ELSE LET ms == SelectSeq(MonthLens(s, 5), LAMBDA L : DayLen(s, 5 + L) > 0)
         IN  IF ms = <<>> THEN NoDate
             ELSE LET L == ms[1]
                      D == DayLen(s, 5 + L)
                      y == Num(SubSeq(s, 1, 4))
                      m == Num(SubSeq(s, 5, 4 + L))
                      d == Num(SubSeq(s, 5 + L, 4 + L + D))
                  IN  IF 4 + L + D # Len(s) THEN NoDate
                      ELSE IF y < 1 \/ d > DaysInMonth(y, m) THEN NoDate
                      ELSE <<y, m, d, 0, 0, 0>>

DayNames == << <<"M", "o", "n">>, <<"T", "u", "e">>, <<"W", "e", "d">>,
               <<"T", "h", "u">>, <<"F", "r", "i">>, <<"S", "a", "t">>,
               <<"S", "u", "n">> >>
MonthNames == << <<"J", "a", "n">>, <<"F", "e", "b">>, <<"M", "a", "r">>,
                 <<"A", "p", "r">>, <<"M", "a", "y">>, <<"J", "u", "n">>,
                 <<"J", "u", "l">>, <<"A", "u", "g">>, <<"S", "e", "p">>,
                 <<"O", "c", "t">>, <<"N", "o", "v">>, <<"D", "e", "c">> >>

\* f"{n:04d}" for n >= 0
Pad4(n) ==
    (IF n < 1000 THEN <<"0">> ELSE <<>>) \o (IF n < 100 THEN <<"0">> ELSE <<>>)
    \o Pad2(n)

\* email.utils.format_datetime(dt) for a naive datetime:
\* "Thu, 15 Jun 2023 00:00:00 -0000"
format_datetime(dt) ==
    DayNames[Weekday(dt[1], dt[2], dt[3]) + 1] \o <<",", " ">> \o Pad2(dt[3])
    \o <<" ">> \o MonthNames[dt[2]] \o <<" ">> \o Pad4(dt[1]) \o <<" ">>
    \o Pad2(dt[4]) \o <<":">> \o Pad2(dt[5]) \o <<":">> \o Pad2(dt[6])
    \o <<" ", "-", "0", "0", "0", "0">>

\* the publish date with a failed parse falling back to the mtime
PubDateFallback(upload_date, mt) ==
    IF upload_date # None /\ upload_date # <<>> /\ strptime_Ymd(upload_date) # NoDate
    THEN strptime_Ymd(upload_date)
    ELSE utcfromtimestamp(mt)

\* lines 72-80: pubdate from upload_date when it is truthy (None where it
\* does not parse), else from the sidecar's mtime
PubDate(upload_date, mt) ==
    IF upload_date # None /\ upload_date # <<>>
    THEN strptime_Ymd(upload_date)
    ELSE utcfromtimestamp(mt)

\* line 81: format_datetime(pubdate) if pubdate else ""
PubDateRfc(pubdate) == IF pubdate # NoDate THEN format_datetime(pubdate) ELSE <<>>

---------------------------------------------------------------------------
(* The script.  Every variable of the script is a module-level global, so   *)
(* the loop variables keep their last value.  What the script reads from    *)
(* outside (a directory's names, a sidecar's content and mtime, the size    *)
(* and probed duration of a media file) is drawn from the sets of a record  *)
(* In when the script reads it; each is read once in a run.                 *)

Untitled == <<"U", "n", "t", "i", "t", "l", "e", "d">>
ChanDescPrefix ==
    <<"A", "u", "t", "o", "-", "g", "e", "n", "e", "r", "a", "t", "e", "d", " ",
      "p", "o", "d", "c", "a", "s", "t", " ", "f", "r", "o", "m", " ",
      "Y", "o", "u", "T", "u", "b", "e", " ", "p", "l", "a", "y", "l", "i", "s", "t", " ">>
NoDownloadsLine ==
    <<"N", "o", " ", "d", "o", "w", "n", "l", "o", "a", "d", "s", " ",
      "f", "o", "l", "d", "e", "r", ",", " ", "e", "x", "i", "t", "i", "n", "g", ".">>

\* args.rss_base (line 54), here "https://r2"
R2_BASE == <<"h", "t", "t", "p", "s", ":", "/", "/", "r", "2">>

\* the downloads directory when it does not exist
NoDir == [isdir |-> FALSE, entries |-> {}]

\* os.path.isdir(ppath) for an entry of the downloads directory
IsDir(name) == <<name, "dir">> \in downloads.entries

\* the value of j before any sidecar was loaded
NoJson == [valid |-> FALSE, title |-> None, description |-> None, upload_date |-> None]

\* j.get(key, default): a key the sidecar does not hold is None in the record
Get(v, default) == IF v = None THEN default ELSE v

\* feed-<slug>.xml
OutName(dir) == <<"f", "e", "e", "d", "-">> \o slugify(dir) \o <<".", "x", "m", "l">>

\* lines 91-92: the enclosure URL of a media file of the current playlist
Url(dir, mp3) == R2_BASE \o <<"/">> \o quote(dir \o <<"/">> \o mp3)

\* lines 104-113: one item block, by its interpolated fields
ItemXml(t, d, p, url, filesize, itunes_duration) ==
    [title |-> t, description |-> d, pubDate |-> p, url |-> url,
     length |-> Str(filesize), guid |-> url, duration |-> itunes_duration]

\* lines 115-127: the document, by its interpolated fields
Rss(dir, items) ==
    [title |-> html_escape(dir),
     link |-> R2_BASE \o <<"/">> \o quote(dir) \o <<"/">>,
     description |-> html_escape(ChanDescPrefix \o dir),
     items |-> items]

\* line 131
WroteLine(outname, n) ==
    <<"W", "r", "o", "t", "e", " ">> \o outname \o <<" ", "(">> \o Str(n)
    \o <<" ", "i", "t", "e", "m", "s", ")">>

\* open(outname, "w").write(rss): the file is created or replaced
WriteFile(dir, outname, rss) ==
    [n \in (DOMAIN dir) \cup {outname} |-> IF n = outname THEN rss ELSE dir[n]]

InitRun(roots) ==
    /\ downloads \in roots
    /\ pc = "start"
    /\ entries = <<>>
    /\ pl_i = 0
    /\ playlist_dir = Unset
    /\ files = {}
    /\ info_files = <<>>
    /\ info_i = 0
    /\ info = Unset
    /\ j = NoJson
    /\ mtime = <<>>
    /\ title = Unset
    /\ desc = Unset
    /\ pubdate_rfc = Unset
    /\ mp3_path = Unset
    /\ items_xml = <<>>
    /\ cwd = <<>>
    /\ stdout = <<>>

loopvars == <<info, j, mtime, title, desc, pubdate_rfc, mp3_path>>

\* lines 56-58
NoDownloads ==
    /\ pc = "start"
    /\ ~downloads.isdir
    /\ stdout' = Append(stdout, NoDownloadsLine)
    /\ pc' = "done"
    /\ UNCHANGED <<downloads, entries, pl_i, playlist_dir, files, info_files, info_i,
                   loopvars, items_xml, cwd, funvars>>

\* line 60: the outer loop's iterable
ListDownloads ==
    /\ pc = "start"
    /\ downloads.isdir
    /\ entries' = Sorted({e[1] : e \in downloads.entries})
    /\ pl_i' = 1
    /\ pc' = "playlists"
    /\ UNCHANGED <<downloads, playlist_dir, files, info_files, info_i, loopvars,
                   items_xml, cwd, stdout, funvars>>

\* lines 60-63: an entry that is no directory
SkipEntry ==
    /\ pc = "playlists"
    /\ pl_i <= Len(entries)
    /\ ~IsDir(entries[pl_i])
    /\ playlist_dir' = entries[pl_i]
    /\ pl_i' = pl_i + 1
    /\ UNCHANGED <<downloads, pc, entries, files, info_files, info_i, loopvars,
                   items_xml, cwd, stdout, funvars>>

\* lines 60-66: a playlist directory is globbed
EnterPlaylist(In) ==
    /\ pc = "playlists"
    /\ pl_i <= Len(entries)
    /\ IsDir(entries[pl_i])
    /\ \E names \in In.listings :
          /\ files' = names
          /\ info_files' = Sorted(GlobInfo(names))
    /\ playlist_dir' = entries[pl_i]
    /\ info_i' = 1
    /\ items_xml' = <<>>
    /\ pc' = "items"
    /\ UNCHANGED <<downloads, entries, pl_i, loopvars, cwd, stdout, funvars>>

\* lines 67-69: json.load raises, the script ends with a traceback
LoadFails(In) ==
    /\ pc = "items"
    /\ info_i <= Len(info_files)
    /\ \E c \in In.sidecars : ~c.valid
    /\ info' = info_files[info_i]
    /\ pc' = "aborted"
    /\ UNCHANGED <<downloads, entries, pl_i, playlist_dir, files, info_files, info_i,
                   j, mtime, title, desc, pubdate_rfc, mp3_path, items_xml, cwd, stdout,
                   funvars>>

\* line 73: "if upload_date" is false of None and of the empty text
Truthy(upload_date) == upload_date # None /\ upload_date # <<>>

\* lines 67-82: the sidecar is loaded and its fields derived; the mtime is
\* read only where upload_date is not truthy
LoadItem(c, mt) ==
    /\ c.valid
    /\ info' = info_files[info_i]
    /\ j' = c
    /\ title' = html_escape(Get(c.title, Untitled))
    /\ desc' = html_escape(Get(c.description, <<>>))
    /\ mtime' = IF Truthy(c.upload_date) THEN mtime ELSE <<mt>>
    /\ pubdate_rfc' = PubDateRfc(PubDate(c.upload_date, mt))
    /\ mp3_path' = Mp3Path(info_files[info_i])

\* lines 67-85: the media file is missing, the sidecar is passed over
SkipItem(In) ==
    /\ pc = "items"
    /\ info_i <= Len(info_files)
    /\ \E c \in In.sidecars, mt \in In.mtimes : LoadItem(c, mt)
    /\ Mp3Path(info_files[info_i]) \notin files
    /\ info_i' = info_i + 1
    /\ UNCHANGED <<downloads, pc, entries, pl_i, playlist_dir, files, info_files,
                   items_xml, cwd, stdout, funvars>>

\* lines 67-113: the item block is appended
AppendItem(In) ==
    /\ pc = "items"
    /\ info_i <= Len(info_files)
    /\ Mp3Path(info_files[info_i]) \in files
    /\ \E c \in In.sidecars, mt \in In.mtimes :
          /\ LoadItem(c, mt)
          /\ \E filesize \in In.sizes, duration_s \in In.durations :
                items_xml' = Append(items_xml,
                    ItemXml(title', desc', pubdate_rfc',
                            Url(playlist_dir, mp3_path'), filesize,
                            sec_to_itunes(duration_s)))
    /\ info_i' = info_i + 1
    /\ UNCHANGED <<downloads, pc, entries, pl_i, playlist_dir, files, info_files,
                   cwd, stdout, funvars>>

\* lines 114-131: the feed of the playlist is written and reported
WriteFeed ==
    /\ pc = "items"
    /\ info_i > Len(info_files)
    /\ LET outname == OutName(playlist_dir)
       IN  /\ cwd' = WriteFile(cwd, outname, Rss(playlist_dir, items_xml))
           /\ stdout' = Append(stdout, WroteLine(outname, Len(items_xml)))
    /\ pl_i' = pl_i + 1
    /\ pc' = "playlists"
    /\ UNCHANGED <<downloads, entries, playlist_dir, files, info_files, info_i,
                   loopvars, items_xml, funvars>>

\* line 60: the outer loop is exhausted
Finish ==
    /\ pc = "playlists"
    /\ pl_i > Len(entries)
    /\ pc' = "done"
    /\ UNCHANGED <<downloads, entries, pl_i, playlist_dir, files, info_files, info_i,
                   loopvars, items_xml, cwd, stdout, funvars>>

Run(In) ==
    \/ NoDownloads
    \/ ListDownloads
    \/ SkipEntry
    \/ EnterPlaylist(In)
    \/ LoadFails(In)
    \/ SkipItem(In)
    \/ AppendItem(In)
    \/ WriteFeed
    \/ Finish

\* no helper call is in progress
InitFun ==
    /\ slug_in = Unset
    /\ slug_out = Unset
    /\ dur_in = NoDuration
    /\ dur_out = Unset

---------------------------------------------------------------------------
(* The inputs of the checked runs *)

\* the most entries the downloads directory holds
MaxEntries == 3

\* playlist directory names: two that differ in case and punctuation only,
\* two without an alphanumeric character
DirNames == {<<"A", " ", "b">>, <<"a", "-", "b">>, <<"!", "?">>, <<"?">>}

\* a plain file beside the playlist directories, sorting between them
PlainNames == {<<"N", ".", "t", "x", "t">>}

\* a downloads directory holding these directories and plain files
Root(ds, ps) ==
    [isdir |-> TRUE,
     entries |-> {<<n, "dir">> : n \in ds} \cup {<<n, "file">> : n \in ps}]

\* the downloads directories of the runs: absent, or up to MaxEntries entries
Roots ==
    {NoDir} \cup
    {r \in {Root(ds, ps) : ds \in SUBSET DirNames, ps \in SUBSET PlainNames} :
        Cardinality(r.entries) <= MaxEntries}

\* what a playlist directory may hold: sidecars of the stems "a" and "B", the
\* media files the script looks for (a..mp3, B..mp3) and the one yt-dlp
\* writes beside a.info.json (a.mp3)
FileNames ==
    {<<"a", ".", "i", "n", "f", "o", ".", "j", "s", "o", "n">>,
     <<"a", ".", "m", "p", "3">>,
     <<"a", ".", ".", "m", "p", "3">>,
     <<"B", ".", "i", "n", "f", "o", ".", "j", "s", "o", "n">>,
     <<"B", ".", ".", "m", "p", "3">>}

\* a sidecar json.load fails on
BadJson == [valid |-> FALSE, title |-> None, description |-> None, upload_date |-> None]

Json(t, d, u) == [valid |-> TRUE, title |-> t, description |-> d, upload_date |-> u]

Inputs ==
    [listings |-> SUBSET FileNames,
     sidecars |-> {BadJson,
                   Json(<<"A", " ", "&", " ", "B">>, None,
                        <<"2", "0", "2", "4", "0", "1", "0", "1">>),
                   Json(None, <<"a", "<", "b">>,
                        <<"2", "0", "2", "3", "0", "6", "1", "5">>)},
     mtimes |-> {0},
     sizes |-> {1024},
     durations |-> {NoDuration}]

Init == InitRun(Roots) /\ InitFun
Next == Run(Inputs)
Spec == Init /\ [][Next]_vars

---------------------------------------------------------------------------
(* Runs over one playlist with varied sidecar content *)

\* playlist directory names with characters html.escape and quote rewrite
ItemDirNames ==
    {<<"A", "&", "B">>, <<"<", "\"", "'", ">">>, <<"&", "a", "m", "p", ";">>}

\* absent, or at most one playlist directory and at most one plain file
ItemRoots ==
    {NoDir} \cup
    {Root(ds, ps) : ds \in {{}} \cup {{d} : d \in ItemDirNames},
                    ps \in SUBSET PlainNames}

Titles == {None, <<"A", " ", "&", " ", "B">>, <<"<", "\"", "'", ">">>,
           <<"&", "a", "m", "p", ";">>}
Descriptions == {None, <<"a", "<", "b">>}

\* upload_date: absent, empty, 8 digits of a day, of February 29th in a leap
\* year and in a common year, of a month 13, 7 digits, and no digits
UploadDates ==
    {None, <<>>,
     <<"2", "0", "2", "3", "0", "6", "1", "5">>,
     <<"2", "0", "2", "4", "0", "2", "2", "9">>,
     <<"2", "0", "2", "3", "0", "2", "2", "9">>,
     <<"2", "0", "2", "3", "1", "3", "0", "1">>,
     <<"2", "0", "2", "3", "6", "1", "5">>,
     <<"J", "u", "n", "e", " ", "1", "5">>}

\* mtimes: the epoch, 2000-02-29 23:59:59, 2023-06-15 12:00:01, 2024-12-31 00:00:00
Mtimes == {0, 951868799, 1686830401, 1735603200}

ItemInputs ==
    [listings |-> SUBSET {<<"a", ".", "i", "n", "f", "o", ".", "j", "s", "o", "n">>,
                          <<"a", ".", ".", "m", "p", "3">>},
     sidecars |-> {BadJson} \cup
                  {Json(t, d, u) : t \in Titles, d \in Descriptions, u \in UploadDates},
     mtimes |-> Mtimes,
     sizes |-> {1024},
     durations |-> {NoDuration, <<596>>}]

ItemInit == InitRun(ItemRoots) /\ InitFun
ItemNext == Run(ItemInputs)
ItemSpec == ItemInit /\ [][ItemNext]_vars

---------------------------------------------------------------------------
(* Calls of slugify *)

\* the longest run of "a" an argument starts with, and the longest text after it
MaxPad == 50
MaxTail == 2

SlugAlphabet == {"a", "B", "7", "-", " ", "_", EAcute}

SlugInputs ==
    {[i \in 1..k |-> "a"] \o t :
        k \in 0..MaxPad,
        t \in UNION {[1..n -> SlugAlphabet] : n \in 0..MaxTail}}

SlugInit ==
    /\ InitRun({NoDir})
    /\ slug_in \in SlugInputs
    /\ slug_out = Unset
    /\ dur_in = NoDuration
    /\ dur_out = Unset

CallSlugify ==
    /\ slug_out = Unset
    /\ slug_out' = slugify(slug_in)
    /\ UNCHANGED <<runvars, slug_in, dur_in, dur_out>>

SlugSpec == SlugInit /\ [][CallSlugify]_vars

---------------------------------------------------------------------------
(* Calls of sec_to_itunes *)

\* the longest duration, in tenths of a second (a little over an hour)
MaxDurTenths == 36700

DurInit ==
    /\ InitRun({NoDir})
    /\ slug_in = Unset
    /\ slug_out = Unset
    /\ dur_in \in {NoDuration} \cup {<<t>> : t \in 0..MaxDurTenths}
    /\ dur_out = Unset

CallSecToItunes ==
    /\ dur_out = Unset
    /\ dur_out' = sec_to_itunes(dur_in)
    /\ UNCHANGED <<runvars, slug_in, slug_out, dur_in>>

DurSpec == DurInit /\ [][CallSecToItunes]_vars

---------------------------------------------------------------------------
(* Properties of slugify (SlugSpec) *)

\* C4: slugify is idempotent: slugify(slugify(x)) = slugify(x) for every text x.
C4_SlugifyIdempotent ==
    slug_out # Unset => slugify(slug_out) = slug_out

SlugChars ==
    {"a", "b", "c", "d", "e", "f", "g", "h", "i", "j", "k", "l", "m", "n", "o", "p",
     "q", "r", "s", "t", "u", "v", "w", "x", "y", "z", "-"} \cup Digits

\* C5: the result of slugify holds only a-z, 0-9 and "-", is at most 50 long,
\* neither starts nor ends with "-", holds no "--", and is empty for a text
\* without a letter or digit.
C5_SlugShape ==
    slug_out # Unset =>
        /\ \A i \in 1..Len(slug_out) : slug_out[i] \in SlugChars
        /\ Len(slug_out) <= 50
        /\ slug_out # <<>> => slug_out[1] # "-" /\ slug_out[Len(slug_out)] # "-"
        /\ \A i \in 1..(Len(slug_out) - 1) : ~(slug_out[i] = "-" /\ slug_out[i + 1] = "-")
        /\ (\A i \in 1..Len(slug_in) : ~IsAlnum(slug_in[i])) => slug_out = <<>>

---------------------------------------------------------------------------
(* Properties of sec_to_itunes (DurSpec) *)

IsNumber(s) == s # <<>> /\ \A i \in 1..Len(s) : s[i] \in Digits

\* C7: sec_to_itunes gives "" for None; otherwise the result reads H:MM:SS or
\* M:SS (two-digit minutes and seconds after the first field, the first field
\* unpadded, minutes and seconds in 0..59), it is H:MM:SS exactly when the
\* hours are positive, and the seconds it spells are an integer nearest to the
\* duration; 59.6 -> 1:00, 3599.4 -> 59:59, 3600 -> 1:00:00, 60 -> 1:00.
C7_DurationFormat ==
    dur_out # Unset =>
        IF dur_in = NoDuration THEN dur_out = <<>>
        ELSE LET t == dur_in[1]
                 f == Split(dur_out, ":")
                 n == Len(f)
                 secs == IF n = 3
                         THEN Num(f[1]) * 3600 + Num(f[2]) * 60 + Num(f[3])
                         ELSE Num(f[1]) * 60 + Num(f[2])
             IN  /\ n \in {2, 3}
                 /\ \A k \in 1..n : IsNumber(f[k])
                 /\ \A k \in 2..n : Len(f[k]) = 2 /\ Num(f[k]) \in 0..59
                 /\ Len(f[1]) = 1 \/ f[1][1] # "0"
                 /\ n = 2 => Num(f[1]) \in 0..59
                 /\ n = 3 <=> secs \div 3600 > 0
                 /\ 10 * secs - t \in -5..5
                 /\ t = 596 => dur_out = <<"1", ":", "0", "0">>
                 /\ t = 35994 => dur_out = <<"5", "9", ":", "5", "9">>
                 /\ t = 36000 => dur_out = <<"1", ":", "0", "0", ":", "0", "0">>
                 /\ t = 600 => dur_out = <<"1", ":", "0", "0">>

\* 3599.5 s, halfway between two seconds, was formatted as one hour
C7_Witness ==
    dur_in = <<35995>> /\ dur_out = <<"1", ":", "0", "0", ":", "0", "0">>

---------------------------------------------------------------------------
(* Properties of a run (Spec) *)

\* <stem> of a sidecar name <stem>.info.json
Stem(inf) == SubSeq(inf, 1, Len(inf) - Len(SidecarSuffix))

\* the media file name <stem>.mp3 of a sidecar
PairedMedia(inf) == Stem(inf) \o MediaSuffix

\* the names of a directory that are sidecars
Sidecars(names) == {f \in names : EndsWith(f, SidecarSuffix) /\ f[1] # "."}

\* the playlist directories of the downloads directory
Playlists == {e[1] : e \in {x \in downloads.entries : x[2] = "dir"}}

\* the feed of the playlist of the current entry has just been written: files,
\* info_files and items_xml are still those of that playlist
JustWritten ==
    /\ pc = "playlists"
    /\ pl_i > 1
    /\ IsDir(entries[pl_i - 1])

\* C1: the media path the item loop pairs with a sidecar <stem>.info.json is
\* <stem>.mp3, in the same directory.
C1_MediaPathIsStemMp3 ==
    (pc # "aborted" /\ mp3_path # Unset) => mp3_path = PairedMedia(info)

\* C2: the feed written for a playlist holds exactly one item for each sidecar
\* <stem>.info.json whose <stem>.mp3 exists and none for the others, and the
\* printed count is the number of those sidecars.
C2_ItemsAreSidecarsWithMedia ==
    JustWritten =>
        LET doc == cwd[OutName(playlist_dir)]
            paired == {f \in Sidecars(files) : PairedMedia(f) \in files}
        IN  /\ Len(doc.items) = Cardinality(paired)
            /\ \A f \in paired :
                  Cardinality({k \in 1..Len(doc.items) :
                      doc.items[k].url = Url(playlist_dir, PairedMedia(f))}) = 1
            /\ stdout[Len(stdout)] = WroteLine(OutName(playlist_dir), Cardinality(paired))

\* the feed file named after playlist d holds the feed of d
HoldsFeedOf(d) ==
    /\ OutName(d) \in DOMAIN cwd
    /\ cwd[OutName(d)].title = html_escape(d)

\* C6: a completed run over N playlist directories leaves N feed documents,
\* each playlist's own, none overwritten by another playlist's.
C6_OneFeedPerPlaylist ==
    (pc = "done" /\ downloads.isdir) =>
        /\ Cardinality(DOMAIN cwd) = Cardinality(Playlists)
        /\ \A d \in Playlists : HoldsFeedOf(d)

\* C9: when a malformed sidecar is reached the run stops there: no feed of its
\* playlist or of a later one is written, and the feed of every playlist
\* before it is on disk.
C9_AbortKeepsEarlierFeeds ==
    pc = "aborted" =>
        /\ \A k \in pl_i..Len(entries) : IsDir(entries[k]) => ~HoldsFeedOf(entries[k])
        /\ \A k \in 1..(pl_i - 1) : IsDir(entries[k]) => HoldsFeedOf(entries[k])

\* the playlist directories among the first n entries, in their order
DirsAmong(n) == SelectSeq(SubSeq(entries, 1, n), IsDir)

StartsWith(s, pre) == Len(s) >= Len(pre) /\ SubSeq(s, 1, Len(pre)) = pre

\* the sidecars among the first n of info_files whose media file was found
KeptAmong(n) ==
    SelectSeq(SubSeq(info_files, 1, n), LAMBDA f : Mp3Path(f) \in files)

\* C10: the entries are taken in ascending lexical order, the feeds are
\* written in that order for the directories among them, the sidecars of a
\* playlist are taken in ascending lexical order, and the items of its feed
\* are those of the kept sidecars in that order, whatever their dates.
C10_LexicalOrder ==
    /\ pc \notin {"start"} /\ downloads.isdir =>
          /\ {entries[k] : k \in 1..Len(entries)} = {e[1] : e \in downloads.entries}
          /\ \A a, b \in 1..Len(entries) : a < b => LexLess(entries[a], entries[b])
          /\ LET done == DirsAmong(pl_i - 1)
             IN  /\ Len(stdout) = Len(done)
                 /\ \A k \in 1..Len(done) :
                       StartsWith(stdout[k],
                                  <<"W", "r", "o", "t", "e", " ">> \o OutName(done[k])
                                  \o <<" ", "(">>)
    /\ (pc \in {"items", "aborted"} \/ JustWritten) =>
          /\ {info_files[k] : k \in 1..Len(info_files)} = Sidecars(files)
          /\ \A a, b \in 1..Len(info_files) :
                a < b => LexLess(info_files[a], info_files[b])
          /\ LET kept == KeptAmong(info_i - 1)
             IN  /\ Len(items_xml) = Len(kept)
                 /\ \A k \in 1..Len(kept) :
                       items_xml[k].url = Url(playlist_dir, Mp3Path(kept[k]))
          /\ JustWritten => cwd[OutName(playlist_dir)].items = items_xml

\* two feeds were written in order after a plain file was passed over, and the
\* second holds two items, the first of them with the later date
C10_Witness ==
    /\ JustWritten
    /\ Len(stdout) = 2
    /\ \E k \in 1..(pl_i - 1) : ~IsDir(entries[k])
    /\ Len(items_xml) = 2
    /\ items_xml[1].pubDate = format_datetime(<<2024, 1, 1, 0, 0, 0>>)
    /\ items_xml[2].pubDate = format_datetime(<<2023, 6, 15, 0, 0, 0>>)
    /\ cwd[OutName(playlist_dir)].items = items_xml

---------------------------------------------------------------------------
(* Properties of an item (ItemSpec) *)

\* the fields of an RFC 2822 date "Thu, 15 Jun 2023 00:00:00 -0000", read
\* back from their fixed columns
RfcMonth(p) == CHOOSE m \in 1..12 : MonthNames[m] = SubSeq(p, 9, 11)
RfcDate(p) == <<Num(SubSeq(p, 13, 16)), RfcMonth(p), Num(SubSeq(p, 6, 7))>>
RfcTime(p) == <<Num(SubSeq(p, 18, 19)), Num(SubSeq(p, 21, 22)), Num(SubSeq(p, 24, 25))>>

IsRfcDate(p) ==
    /\ Len(p) = 31
    /\ \E m \in 1..12 : MonthNames[m] = SubSeq(p, 9, 11)
    /\ \E w \in 1..7 : DayNames[w] = SubSeq(p, 1, 3)
    /\ \A i \in {6, 7, 13, 14, 15, 16, 18, 19, 21, 22, 24, 25} : p[i] \in Digits

\* the seconds since the epoch an RFC 2822 date in UTC names
RfcSeconds(p) ==
    LET d == RfcDate(p)
        t == RfcTime(p)
    IN  (Ordinal(d[1], d[2], d[3]) - EpochOrdinal) * 86400
        + t[1] * 3600 + t[2] * 60 + t[3]

\* the calendar days a text of digits spells as YYYY, month, day, the month
\* and the day with or without a leading zero
Spells(u) ==
    IF ~IsNumber(u) \/ Len(u) < 6 THEN {}
    ELSE {ymd \in {Num(SubSeq(u, 1, 4))} \X (1..12) \X (1..31) :
            /\ ymd[1] >= 1
            /\ ymd[3] <= DaysInMonth(ymd[1], ymd[2])
            /\ \E mm \in {Str(ymd[2]), Pad2(ymd[2])}, dd \in {Str(ymd[3]), Pad2(ymd[3])} :
                  u = SubSeq(u, 1, 4) \o mm \o dd}

\* upload_date is eight digits naming a calendar day
IsYmd8(u) == Len(u) = 8 /\ Spells(u) # {}

\* the sidecar info_files[info_i - 1] of the current playlist has just been
\* loaded and its item appended
ItemAppended ==
    /\ pc = "items"
    /\ info_i > 1
    /\ Mp3Path(info_files[info_i - 1]) \in files

\* the pubDate of the item appended last
LastPubDate == items_xml[Len(items_xml)].pubDate

\* C3 as stated: a present upload_date that parses as a calendar day gives
\* that day; an absent one, or one that spells no calendar day, gives the
\* RFC 2822 form of the sidecar's mtime, so pubDate is not empty in either case.
C3_PubDateFallsBackToMtime ==
    ItemAppended =>
        IF j.upload_date # None /\ Spells(j.upload_date) # {}
        THEN /\ IsRfcDate(LastPubDate)
             /\ RfcDate(LastPubDate) \in Spells(j.upload_date)
        ELSE /\ IsRfcDate(LastPubDate)
             /\ RfcSeconds(LastPubDate) \in Mtimes

\* C3 as the script has it: a non-empty upload_date that strptime accepts
\* (eight digits of a calendar day; also the same with a one-digit month or
\* day) gives that day at 00:00:00 whatever the mtime; an absent or empty one
\* gives the sidecar's mtime; a non-empty one that spells no calendar day
\* gives an empty pubDate.
C3_PubDatePolicy ==
    ItemAppended =>
        /\ LastPubDate = pubdate_rfc
        /\ IF j.upload_date = None \/ j.upload_date = <<>>
           THEN /\ mtime # <<>>
                /\ IsRfcDate(LastPubDate)
                /\ RfcSeconds(LastPubDate) = mtime[1]
                /\ DayNames[(((mtime[1] \div 86400) + 3) % 7) + 1] = SubSeq(LastPubDate, 1, 3)
           ELSE IF Spells(j.upload_date) = {}
           THEN LastPubDate = <<>>
           ELSE /\ IsRfcDate(LastPubDate)
                /\ RfcDate(LastPubDate) \in Spells(j.upload_date)
                /\ RfcTime(LastPubDate) = <<0, 0, 0>>
                /\ IsYmd8(j.upload_date) =>
                      /\ Num(SubSeq(j.upload_date, 5, 6)) = RfcDate(LastPubDate)[2]
                      /\ Num(SubSeq(j.upload_date, 7, 8)) = RfcDate(LastPubDate)[3]

\* the item of a sidecar whose upload_date names February 29th of a common
\* year was appended with an empty pubDate
C3_Witness ==
    /\ ItemAppended
    /\ j.upload_date = <<"2", "0", "2", "3", "0", "2", "2", "9">>
    /\ LastPubDate = <<>>

Entities == <<Amp, Lt, Gt, Quot, Apos>>
EntityChars == <<"&", "<", ">", "\"", "'">>

\* s with each entity replaced by its character, once, left to right
RECURSIVE Unescape(_)
Unescape(s) ==
    IF s = <<>> THEN <<>>
    ELSE IF \E e \in 1..5 : StartsWith(s, Entities[e])
    THEN LET e == CHOOSE x \in 1..5 : StartsWith(s, Entities[x])
         IN  <<EntityChars[e]>> \o Unescape(SubSeq(s, Len(Entities[e]) + 1, Len(s)))
    ELSE <<Head(s)>> \o Unescape(Tail(s))

\* no "<", ">" or '"' is left in s and every "&" starts an entity
NoRaw(s) ==
    \A i \in 1..Len(s) :
        /\ s[i] \notin {"<", ">", "\""}
        /\ s[i] = "&" => \E e \in 1..5 : StartsWith(SubSeq(s, i, Len(s)), Entities[e])

\* s is raw escaped exactly once
EscapedOnce(s, raw) == NoRaw(s) /\ Unescape(s) = raw

\* C8: the title and description of an item and the title and description of
\* a channel are the input texts with "<", "&" and '"' replaced by their
\* entities exactly once: "A & B" becomes "A &amp; B".
C8_EscapedExactlyOnce ==
    /\ (j.valid /\ pc # "aborted") =>
          /\ EscapedOnce(title, Get(j.title, Untitled))
          /\ EscapedOnce(desc, Get(j.description, <<>>))
          /\ j.title = <<"A", " ", "&", " ", "B">> =>
                title = <<"A", " ", "&", "a", "m", "p", ";", " ", "B">>
          /\ (pc = "items" /\ Mp3Path(info) \in files) =>
                /\ items_xml[Len(items_xml)].title = title
                /\ items_xml[Len(items_xml)].description = desc
    /\ \A n \in DOMAIN cwd :
          /\ \E d \in Playlists :
                /\ EscapedOnce(cwd[n].title, d)
                /\ EscapedOnce(cwd[n].description, ChanDescPrefix \o d)
          /\ \A k \in 1..Len(cwd[n].items) :
                /\ \E t \in Titles : EscapedOnce(cwd[n].items[k].title, Get(t, Untitled))
                /\ \E d \in Descriptions :
                      EscapedOnce(cwd[n].items[k].description, Get(d, <<>>))

\* a feed was written whose channel title and item title both held
\* characters to escape
C8_Witness ==
    \E n \in DOMAIN cwd :
        /\ cwd[n].title = <<"&", "l", "t", ";", "&", "q", "u", "o", "t", ";",
                            "&", "#", "x", "2", "7", ";", "&", "g", "t", ";">>
        /\ Len(cwd[n].items) = 1
        /\ cwd[n].items[1].title = <<"&", "a", "m", "p", ";", "a", "m", "p", ";">>
        /\ cwd[n].items[1].description = <<"a", "&", "l", "t", ";", "b">>

===========================================================================
